---- MODULE Spec2Model ----
(***************************************************************************)
(* A model of iss_tracker.py: a Flask application that, on every request,  *)
(* downloads the ISS ephemeris (CCSDS OEM XML), parses it into a list of   *)
(* state-vector records and answers from that list.                        *)
(*                                                                         *)
(* Representation.                                                         *)
(*  - A Python str that the code parses is a sequence of one-character     *)
(*    strings (<<"1", ".", "5">>); float() and int() are modelled by what  *)
(*    they do to such a sequence.                                          *)
(*  - A Python float is a fixed-point integer with one decimal digit:      *)
(*    the float 1.5 is the integer 15 (ten units per 1.0).                 *)
(*  - An EPOCH string "YYYY-DDDTHH:MM:SS.fffZ" is the sequence of its      *)
(*    numeric tokens <<DDD, HH, MM, SS, fff>>; datetime.strptime turns it  *)
(*    into an instant, in milliseconds since the start of the year.        *)
(*  - A Python exception leaving a function is a result with ok = FALSE    *)
(*    and the exception's type in exc.                                     *)
(*  - Python's None, where a value may be None, is the empty sequence <<>> *)
(*    and a value v is <<v>>.                                              *)
(***************************************************************************)
EXTENDS Integers, Sequences, FiniteSets, TLC

VARIABLES req, inp, out

vars == <<req, inp, out>>

(***************************************************************************)
(* Bounds of the model.                                                    *)
(***************************************************************************)
\* longest feed (number of stateVector elements) the specifications draw
MaxEntries == 3
\* velocity components range over -MaxVel..MaxVel (fixed-point units)
MaxVel == 3
\* the clock and the epochs range over 0..MaxMinutes minutes
MaxMinutes == 11

(***************************************************************************)
(* Python builtins: float(), int(), math.sqrt, abs, slicing.               *)
(***************************************************************************)
DigitChars == <<"0", "1", "2", "3", "4", "5", "6", "7", "8", "9">>

Digits == {DigitChars[i] : i \in 1..10}

DigitVal(c) == (CHOOSE i \in 1..10 : DigitChars[i] = c) - 1

IsDigits(s) == \A i \in 1..Len(s) : s[i] \in Digits

RECURSIVE DigitsVal(_)
DigitsVal(s) ==
    IF s = <<>> THEN 0
    ELSE DigitsVal(SubSeq(s, 1, Len(s) - 1)) * 10 + DigitVal(s[Len(s)])

Unsigned(s) == IF s # <<>> /\ s[1] \in {"-", "+"} THEN Tail(s) ELSE s

SignOf(s) == IF s # <<>> /\ s[1] = "-" THEN -1 ELSE 1

\* the place of the first "." of s, or 0
DotAt(s) == IF \E i \in 1..Len(s) : s[i] = "."
            THEN CHOOSE i \in 1..Len(s) : s[i] = "." /\ \A j \in 1..(i - 1) : s[j] # "."
            ELSE 0

IntPart(u, d) == IF d = 0 THEN u ELSE SubSeq(u, 1, d - 1)

FracPart(u, d) == IF d = 0 THEN <<>> ELSE SubSeq(u, d + 1, Len(u))

\* int(text): [sign] digits, anything else is a ValueError
py_int(s) ==
    IF Unsigned(s) # <<>> /\ IsDigits(Unsigned(s))
    THEN [ok |-> TRUE, exc |-> "", val |-> SignOf(s) * DigitsVal(Unsigned(s))]
    ELSE [ok |-> FALSE, exc |-> "ValueError", val |-> 0]

\* the float of sign, integer part ip and fraction fp: the first decimal digit is kept
float_of(sign, ip, fp) ==
    IF IsDigits(ip) /\ IsDigits(fp) /\ Len(ip) + Len(fp) > 0
    THEN [ok |-> TRUE, exc |-> "",
          val |-> sign * (DigitsVal(ip) * 10 + (IF fp = <<>> THEN 0 ELSE DigitVal(fp[1])))]
    ELSE [ok |-> FALSE, exc |-> "ValueError", val |-> 0]

\* float(text): [sign] digits [. digits] or [sign] . digits, anything else is a
\* ValueError
py_float(s) ==
    float_of(SignOf(s), IntPart(Unsigned(s), DotAt(Unsigned(s))),
             FracPart(Unsigned(s), DotAt(Unsigned(s))))

Abs(n) == IF n < 0 THEN -n ELSE n

\* math.sqrt at the resolution of the fixed-point floats (rounded down)
py_sqrt(n) == CHOOSE r \in 0..n : r * r <= n /\ (r + 1) * (r + 1) > n

Min(a, b) == IF a < b THEN a ELSE b

Max(a, b) == IF a < b THEN b ELSE a

\* seq[start:stop] of Python, indices from 0, negative ones counted from the end
py_slice(seq, start, stop) ==
    SubSeq(seq,
           (IF start < 0 THEN Max(Len(seq) + start, 0) ELSE Min(start, Len(seq))) + 1,
           IF stop < 0 THEN Max(Len(seq) + stop, 0) ELSE Min(stop, Len(seq)))

(***************************************************************************)
(* The feed.  A document is what the XML holds before xmltodict collapses  *)
(* it: the stateVector elements in order, each child element absent (<<>>) *)
(* or present with its text and whether it carries attributes (units=).    *)
(***************************************************************************)
\* xmltodict: a child with attributes is a dict holding "#text" (when the text is
\* not empty), a child without attributes is a bare str; t[name]["#text"] is then
\* a KeyError (no child, no text), a TypeError (str index) or the text
getitem_text(f) ==
    IF f = <<>> THEN [ok |-> FALSE, exc |-> "KeyError", text |-> <<>>]
    ELSE IF ~f[1].attrs THEN [ok |-> FALSE, exc |-> "TypeError", text |-> <<>>]
    ELSE IF f[1].text = <<>> THEN [ok |-> FALSE, exc |-> "KeyError", text |-> <<>>]
    ELSE [ok |-> TRUE, exc |-> "", text |-> f[1].text]

\* float(t[name]["#text"])
float_field(f) ==
    IF ~getitem_text(f).ok THEN [ok |-> FALSE, exc |-> getitem_text(f).exc, val |-> 0]
    ELSE py_float(getitem_text(f).text)

NoRecord == [EPOCH |-> <<>>, X |-> 0, Y |-> 0, Z |-> 0, X_DOT |-> 0, Y_DOT |-> 0, Z_DOT |-> 0]

Raised(exc) == [ok |-> FALSE, exc |-> exc, rec |-> NoRecord]

\* the dict literal of the loop body, its items evaluated in the order they are
\* written: the first failing one raises
t_data_items(t, x, y, z, x_dot, y_dot, z_dot) ==
    IF t.EPOCH = <<>> THEN Raised("KeyError")
    ELSE IF ~x.ok THEN Raised(x.exc)
    ELSE IF ~y.ok THEN Raised(y.exc)
    ELSE IF ~z.ok THEN Raised(z.exc)
    ELSE IF ~x_dot.ok THEN Raised(x_dot.exc)
    ELSE IF ~y_dot.ok THEN Raised(y_dot.exc)
    ELSE IF ~z_dot.ok THEN Raised(z_dot.exc)
    ELSE [ok |-> TRUE, exc |-> "",
          rec |-> [EPOCH |-> t.EPOCH[1], X |-> x.val, Y |-> y.val, Z |-> z.val,
                   X_DOT |-> x_dot.val, Y_DOT |-> y_dot.val, Z_DOT |-> z_dot.val]]

t_data(t) ==
    t_data_items(t, float_field(t.X), float_field(t.Y), float_field(t.Z),
                 float_field(t.X_DOT), float_field(t.Y_DOT), float_field(t.Z_DOT))

\* xml_dict[...]["data"]["stateVector"]: xmltodict gives a list for a repeated
\* element, the bare dict for a single one, and no key when there is none
xml_stateVector(doc) ==
    IF Len(doc.stateVectors) = 0 THEN [kind |-> "missing", items |-> <<>>]
    ELSE IF Len(doc.stateVectors) = 1 THEN [kind |-> "dict", items |-> doc.stateVectors]
    ELSE [kind |-> "list", items |-> doc.stateVectors]

\* the for loop over a list of state vectors, from entry i on, data built so far;
\* td is the dict built of entry i
RECURSIVE parse_loop(_, _, _)
\* a variant that leaves out the entries it cannot convert
parse_step_partial(epochs, i, data, td) ==
    IF ~td.ok THEN parse_loop(epochs, i + 1, data)
    ELSE parse_loop(epochs, i + 1, Append(data, td.rec))

parse_step(epochs, i, data, td) ==
    IF ~td.ok THEN [ok |-> FALSE, exc |-> td.exc, data |-> <<>>]
    ELSE parse_loop(epochs, i + 1, Append(data, td.rec))

parse_loop(epochs, i, data) ==
    IF i > Len(epochs) THEN [ok |-> TRUE, exc |-> "", data |-> data]
    ELSE parse_step(epochs, i, data, t_data(epochs[i]))

parse_epochs(epochs) ==
    CASE epochs.kind = "missing" -> [ok |-> FALSE, exc |-> "KeyError", data |-> <<>>]
      \* iterating a dict yields its keys: t is a str and t["EPOCH"] a TypeError
      [] epochs.kind = "dict" -> [ok |-> FALSE, exc |-> "TypeError", data |-> <<>>]
      [] OTHER -> parse_loop(epochs.items, 1, <<>>)

parse_xml_data(xml_data) == parse_epochs(xml_stateVector(xml_data))

(***************************************************************************)
(* Kinematics, the nearest-epoch scan and the location.                    *)
(***************************************************************************)
\* a variant that leaves the third component out
calculate_speed_2d(x_dot, y_dot, z_dot) == py_sqrt(x_dot * x_dot + y_dot * y_dot)

calculate_speed(x_dot, y_dot, z_dot) == py_sqrt(x_dot * x_dot + y_dot * y_dot + z_dot * z_dot)

\* datetime.strptime(s, "%Y-%jT%H:%M:%S.%fZ"): the instant in milliseconds since
\* the start of the year, or a ValueError when a token is out of its range
strptime(s) ==
    IF /\ Len(s) = 5
       /\ s[1] \in 1..366 /\ s[2] \in 0..23 /\ s[3] \in 0..59 /\ s[4] \in 0..59
       /\ s[5] \in 0..999
    THEN [ok |-> TRUE, exc |-> "",
          t |-> (((s[1] - 1) * 24 + s[2]) * 60 + s[3]) * 60000 + s[4] * 1000 + s[5]]
    ELSE [ok |-> FALSE, exc |-> "ValueError", t |-> 0]

\* timedelta(minutes=4, milliseconds=1), in milliseconds
tolerance == 240001

\* timedelta.max, cut to the largest integer TLC holds: above every difference
\* of two instants of one year
timedelta_max == 2147483647

\* the for loop of get_current_info from entry i on; epoch_t is the parsed EPOCH
\* of entry i and diff is current_time - epoch_t
RECURSIVE current_scan(_, _, _, _, _)
scan_diff(data, i, closest, min_diff, current_time, diff) ==
    IF diff < -tolerance THEN [ok |-> TRUE, exc |-> "", closest |-> closest]
    ELSE IF Abs(diff) < min_diff
    THEN current_scan(data, i + 1, <<data[i]>>, diff, current_time)
    ELSE current_scan(data, i + 1, closest, min_diff, current_time)

scan_step(data, i, closest, min_diff, current_time, epoch_t) ==
    IF ~epoch_t.ok THEN [ok |-> FALSE, exc |-> epoch_t.exc, closest |-> <<>>]
    ELSE scan_diff(data, i, closest, min_diff, current_time, current_time - epoch_t.t)

current_scan(data, i, closest, min_diff, current_time) ==
    IF i > Len(data) THEN [ok |-> TRUE, exc |-> "", closest |-> closest]
    ELSE scan_step(data, i, closest, min_diff, current_time, strptime(data[i].EPOCH))

\* the end of get_current_info, s the outcome of its loop
current_speed(s) ==
    IF ~s.ok THEN [ok |-> FALSE, exc |-> s.exc, closest |-> <<>>, speed |-> 0]
    \* closest["X_DOT"] with closest = None
    ELSE IF s.closest = <<>>
    THEN [ok |-> FALSE, exc |-> "TypeError", closest |-> <<>>, speed |-> 0]
    ELSE [ok |-> TRUE, exc |-> "", closest |-> s.closest,
          speed |-> calculate_speed(s.closest[1].X_DOT, s.closest[1].Y_DOT,
                                    s.closest[1].Z_DOT)]

\* current_time is what datetime.utcnow() returned
get_current_info(data, current_time) ==
    current_speed(current_scan(data, 1, <<>>, timedelta_max, current_time))

\* the outcomes of Nominatim.reverse: a Location, None, or an exception of geopy
GeoOutcomes ==
    {[kind |-> "found", address |-> "Chunsky Rayon"],
     [kind |-> "none", address |-> ""],
     [kind |-> "unavailable", address |-> ""]}

\* GCRS -> ITRS -> EarthLocation at the epoch: astropy's transform is not
\* computed, its result is the term of its arguments
EarthLocation(t, x, y, z) == [obstime |-> t, x |-> x, y |-> y, z |-> z]

NoLocation == EarthLocation(0, 0, 0, 0)

\* calculate_location after its first line, epoch the parsed EPOCH
location_at(data, geo, epoch) ==
    IF ~epoch.ok
    THEN [ok |-> FALSE, exc |-> epoch.exc, loc |-> NoLocation, geoposition |-> ""]
    ELSE IF geo.kind = "unavailable"
    THEN [ok |-> FALSE, exc |-> "GeocoderServiceError", loc |-> NoLocation,
          geoposition |-> ""]
    ELSE [ok |-> TRUE, exc |-> "", loc |-> EarthLocation(epoch.t, data.X, data.Y, data.Z),
          geoposition |-> IF geo.kind = "found" THEN geo.address
                          ELSE "Address not found"]

\* geo is what geolocator.reverse does in this call
calculate_location(data, geo) == location_at(data, geo, strptime(data.EPOCH))

(***************************************************************************)
(* The routes.  A response is one record whatever the route: its status,   *)
(* its kind ("text", "json", or "unhandled" for Flask's answer to an       *)
(* exception that left the view), and the fields of the JSON bodies.       *)
(***************************************************************************)
NoResp ==
    [status |-> 0, kind |-> "", text |-> "", exc |-> "", items |-> <<>>,
     newline |-> FALSE, speed |-> 0, loc |-> NoLocation, geoposition |-> "",
     closest_epoch |-> <<>>, comments |-> <<>>, mapping |-> ""]

TextResp(text, status) == [NoResp EXCEPT !.status = status, !.kind = "text", !.text = text]

JsonResp == [NoResp EXCEPT !.status = 200, !.kind = "json"]

\* an exception no view catches: Flask answers 500 Internal Server Error
Unhandled(exc) == [NoResp EXCEPT !.status = 500, !.kind = "unhandled", !.exc = exc]

FailedDownload == TextResp("Failed to download ISS data.", 500)

NotFound == TextResp("Epoch not found.", 404)

\* net is what requests.get and raise_for_status do in this call: kind "ok" with
\* the content (<<>> for an empty body, <<doc>> for a document), or the
\* RequestException raised.  The return value is None or the content.
download_iss_data(net) ==
    IF net.kind = "ok" THEN [isNone |-> FALSE, content |-> net.content]
    ELSE [isNone |-> TRUE, content |-> <<>>]

\* "if iss_data:" None and b"" are both false
truthy(iss_data) == ~iss_data.isNone /\ iss_data.content # <<>>

NotNull(comment) == comment # ""

\* the body of get_comments once the document is there
comments_body(doc) ==
    IF Len(doc.comments) = 0 THEN Unhandled("KeyError")
    ELSE IF Len(doc.comments) = 1 THEN [JsonResp EXCEPT !.comments = doc.comments]
    ELSE [JsonResp EXCEPT !.comments = SelectSeq(doc.comments, NotNull)]

header_body(doc) == [JsonResp EXCEPT !.mapping = doc.header]

metadata_body(doc) == [JsonResp EXCEPT !.mapping = doc.metadata]

\* request.args.get(name, default) then int(): arg is <<>> or <<text>>
int_arg(arg, default) ==
    IF arg = <<>> THEN [ok |-> TRUE, exc |-> "", val |-> default] ELSE py_int(arg[1])

\* get_epochs after its try block
epochs_slice(parsed_data, limit, offset) ==
    IF ~limit.ok \/ ~offset.ok
    THEN TextResp("Invalid paramters; limit and offset must be integers.", 500)
    ELSE IF limit.val = Len(parsed_data) /\ offset.val = 0
    THEN [JsonResp EXCEPT !.items = parsed_data]
    ELSE [JsonResp EXCEPT !.items = py_slice(parsed_data, offset.val,
                                             offset.val + limit.val),
                          !.newline = TRUE]

\* get_epochs once the feed is parsed
epochs_body(parsed_data, args) ==
    epochs_slice(parsed_data, int_arg(args.limit, Len(parsed_data)),
                 int_arg(args.offset, 0))

\* the index of the first record the loop "for data in parsed_data" matches, or 0
find_epoch(parsed_data, epoch) ==
    IF \E i \in 1..Len(parsed_data) : parsed_data[i].EPOCH = epoch
    THEN CHOOSE i \in 1..Len(parsed_data) :
            /\ parsed_data[i].EPOCH = epoch
            /\ \A j \in 1..(i - 1) : parsed_data[j].EPOCH # epoch
    ELSE 0

epoch_found(parsed_data, i) ==
    IF i = 0 THEN NotFound ELSE [JsonResp EXCEPT !.items = <<parsed_data[i]>>]

epoch_body(parsed_data, epoch) == epoch_found(parsed_data, find_epoch(parsed_data, epoch))

\* the speed is computed in the view, not by calculate_speed
speed_found(parsed_data, i) ==
    IF i = 0 THEN NotFound
    ELSE [JsonResp EXCEPT !.speed = py_sqrt(parsed_data[i].X_DOT * parsed_data[i].X_DOT
                                            + parsed_data[i].Y_DOT * parsed_data[i].Y_DOT
                                            + parsed_data[i].Z_DOT * parsed_data[i].Z_DOT)]

epoch_speed_body(parsed_data, epoch) ==
    speed_found(parsed_data, find_epoch(parsed_data, epoch))

\* the response built from calculate_location's tuple l
location_response(l) ==
    IF ~l.ok THEN Unhandled(l.exc)
    ELSE [JsonResp EXCEPT !.loc = l.loc, !.geoposition = l.geoposition]

location_found(parsed_data, i, geo) ==
    IF i = 0 THEN NotFound
    ELSE location_response(calculate_location(parsed_data[i], geo))

epoch_location_body(parsed_data, epoch, geo) ==
    location_found(parsed_data, find_epoch(parsed_data, epoch), geo)

nearest_response(closest, speed, l) ==
    IF ~l.ok THEN Unhandled(l.exc)
    ELSE [JsonResp EXCEPT !.closest_epoch = closest.EPOCH, !.loc = l.loc,
                          !.geoposition = l.geoposition, !.speed = speed]

nearest_located(info, geo) ==
    IF ~info.ok THEN Unhandled(info.exc)
    ELSE nearest_response(info.closest[1], info.speed,
                          calculate_location(info.closest[1], geo))

nearest_epoch_body(parsed_data, current_time, geo) ==
    nearest_located(get_current_info(parsed_data, current_time), geo)

get_comments(net) ==
    IF truthy(download_iss_data(net)) THEN comments_body(download_iss_data(net).content[1])
    ELSE FailedDownload

get_header(net) ==
    IF truthy(download_iss_data(net)) THEN header_body(download_iss_data(net).content[1])
    ELSE FailedDownload

get_metadata(net) ==
    IF truthy(download_iss_data(net)) THEN metadata_body(download_iss_data(net).content[1])
    ELSE FailedDownload

\* in the views below an exception of parse_xml_data is not caught
epochs_parsed(parsed, args) ==
    IF ~parsed.ok THEN Unhandled(parsed.exc) ELSE epochs_body(parsed.data, args)

get_epochs(net, args) ==
    IF truthy(download_iss_data(net))
    THEN epochs_parsed(parse_xml_data(download_iss_data(net).content[1]), args)
    ELSE FailedDownload

epoch_parsed(parsed, epoch) ==
    IF ~parsed.ok THEN Unhandled(parsed.exc) ELSE epoch_body(parsed.data, epoch)

get_epoch(net, epoch) ==
    IF truthy(download_iss_data(net))
    THEN epoch_parsed(parse_xml_data(download_iss_data(net).content[1]), epoch)
    ELSE FailedDownload

epoch_speed_parsed(parsed, epoch) ==
    IF ~parsed.ok THEN Unhandled(parsed.exc) ELSE epoch_speed_body(parsed.data, epoch)

get_epoch_speed(net, epoch) ==
    IF truthy(download_iss_data(net))
    THEN epoch_speed_parsed(parse_xml_data(download_iss_data(net).content[1]), epoch)
    ELSE FailedDownload

epoch_location_parsed(parsed, epoch, geo) ==
    IF ~parsed.ok THEN Unhandled(parsed.exc)
    ELSE epoch_location_body(parsed.data, epoch, geo)

get_epoch_location(net, epoch, geo) ==
    IF truthy(download_iss_data(net))
    THEN epoch_location_parsed(parse_xml_data(download_iss_data(net).content[1]),
                               epoch, geo)
    ELSE FailedDownload

nearest_epoch_parsed(parsed, current_time, geo) ==
    IF ~parsed.ok THEN Unhandled(parsed.exc)
    ELSE nearest_epoch_body(parsed.data, current_time, geo)

get_nearest_epoch(net, current_time, geo) ==
    IF truthy(download_iss_data(net))
    THEN nearest_epoch_parsed(parse_xml_data(download_iss_data(net).content[1]),
                              current_time, geo)
    ELSE FailedDownload

(***************************************************************************)
(* Inputs: the texts, epochs and elements the specifications draw from.    *)
(***************************************************************************)
\* the text of a fixed-point value v, |v| < 100: "-1.5" for -15
Fmt(v) ==
    (IF v < 0 THEN <<"-">> ELSE <<>>)
        \o <<DigitChars[(Abs(v) \div 10) + 1], ".", DigitChars[(Abs(v) % 10) + 1]>>

WithUnits(text) == <<[attrs |-> TRUE, text |-> text]>>

\* the EPOCH string of minute m of day 1, ms milliseconds into it
EpochAt(m, ms) == <<1, m \div 60, m % 60, ms \div 1000, ms % 1000>>

\* a well-formed stateVector element
Elem(epoch, p, v) ==
    [EPOCH |-> <<epoch>>,
     X |-> WithUnits(Fmt(p[1])), Y |-> WithUnits(Fmt(p[2])), Z |-> WithUnits(Fmt(p[3])),
     X_DOT |-> WithUnits(Fmt(v[1])), Y_DOT |-> WithUnits(Fmt(v[2])),
     Z_DOT |-> WithUnits(Fmt(v[3]))]

Doc(svs) == [header |-> "header", metadata |-> "metadata", comments |-> <<"c1", "c2">>,
             stateVectors |-> svs]

SeqsUpTo(S, n) == UNION {[1..k -> S] : k \in 0..n}

\* <<EPOCH string, position, velocity>> of the well-formed elements
WellFormedParams ==
    {<<EpochAt(4, 0), <<10, 20, 30>>, <<10, 20, 30>>>>,
     <<EpochAt(5, 0), <<15, 25, 35>>, <<15, 25, 35>>>>,
     <<EpochAt(5, 0), <<-15, 0, 7>>, <<-1, 0, 22>>>>,
     <<EpochAt(10, 30500), <<0, 99, -99>>, <<0, 0, 0>>>>}

WellFormedElems == {Elem(q[1], q[2], q[3]) : q \in WellFormedParams}

BaseElem == Elem(EpochAt(4, 0), <<10, 20, 30>>, <<10, 20, 30>>)

FaultyElems ==
    {[BaseElem EXCEPT !.EPOCH = <<>>],
     [BaseElem EXCEPT !.X = <<>>],
     [BaseElem EXCEPT !.Y = <<[attrs |-> FALSE, text |-> Fmt(20)]>>],
     [BaseElem EXCEPT !.Z = WithUnits(<<>>)],
     [BaseElem EXCEPT !.X_DOT = WithUnits(<<"x">>)],
     [BaseElem EXCEPT !.Y_DOT = WithUnits(<<"1", ".", "2", ".", "3">>)],
     [BaseElem EXCEPT !.Z_DOT = WithUnits(<<"-">>)]}

ParseDocs == {Doc(s) : s \in SeqsUpTo(WellFormedElems \cup FaultyElems, MaxEntries)}

Idle == [done |-> FALSE]

NoRequests == <<>>

(***************************************************************************)
(* SpecParse: parse_xml_data applied to a drawn document.                  *)
(***************************************************************************)
InitParse ==
    /\ req = NoRequests
    /\ inp \in {[xml_data |-> d] : d \in ParseDocs}
    /\ out = Idle

CallParse ==
    /\ ~out.done
    /\ out' = [done |-> TRUE, fn |-> "parse_xml_data", ret |-> parse_xml_data(inp.xml_data)]
    /\ UNCHANGED <<req, inp>>

NextParse == CallParse

SpecParse == InitParse /\ [][NextParse]_vars

\* the record an element written as Elem(epoch, p, v) stands for
Expected(e) ==
    LET q == CHOOSE q \in WellFormedParams : Elem(q[1], q[2], q[3]) = e IN
    [EPOCH |-> q[1], X |-> q[2][1], Y |-> q[2][2], Z |-> q[2][3],
     X_DOT |-> q[3][1], Y_DOT |-> q[3][2], Z_DOT |-> q[3][3]]

ParsedFeed == out.done /\ out.fn = "parse_xml_data"

AllWellFormed(svs) == \A i \in 1..Len(svs) : svs[i] \in WellFormedElems

\* C3: parsing a feed with exactly one (well-formed) stateVector entry yields the
\* one-element sequence holding that entry's record, not an error.
C3_SingleEntryParses ==
    LET svs == inp.xml_data.stateVectors IN
    (ParsedFeed /\ Len(svs) = 1 /\ AllWellFormed(svs))
        => (out.ret.ok /\ out.ret.data = <<Expected(svs[1])>>)

\* C8: for a feed of N >= 2 entries, parse_xml_data returns N records in feed
\* order, the i-th with the i-th entry's EPOCH unchanged and its six fields as
\* numbers, when every entry is well-formed; and fails as a whole, returning no
\* list, when some entry has a malformed or missing field.
C8_ParseAllOrNothing ==
    LET svs == inp.xml_data.stateVectors IN
    (ParsedFeed /\ Len(svs) >= 2) =>
        IF AllWellFormed(svs)
        THEN /\ out.ret.ok
             /\ Len(out.ret.data) = Len(svs)
             /\ \A i \in 1..Len(svs) : out.ret.data[i] = Expected(svs[i])
        ELSE ~out.ret.ok /\ out.ret.data = <<>>

C8_Witness ==
    LET svs == inp.xml_data.stateVectors IN
    /\ ParsedFeed /\ Len(svs) = 3 /\ AllWellFormed(svs)
    /\ svs[1] # svs[2] /\ svs[2] # svs[3]
    /\ out.ret.ok /\ Len(out.ret.data) = 3

(***************************************************************************)
(* SpecSpeed: calculate_speed, and the two callers that return a speed,    *)
(* applied to a drawn velocity.                                            *)
(***************************************************************************)
OkNet(doc) == [kind |-> "ok", content |-> <<doc>>]

\* the instant d milliseconds after minute m of day 1
NowAt(m, d) == m * 60000 + d

Velocities == {<<a, b, c>> : a \in -MaxVel..MaxVel, b \in -MaxVel..MaxVel, c \in -MaxVel..MaxVel}

\* the two-record feed of the tests with velocity v in its first record
SpeedDoc(v) ==
    Doc(<<Elem(EpochAt(4, 0), <<10, 20, 30>>, v),
          Elem(EpochAt(5, 0), <<15, 25, 35>>, <<v[3], v[1], v[2] + 1>>)>>)

InitSpeed ==
    /\ req = NoRequests
    /\ inp \in {[v |-> v] : v \in Velocities}
    /\ out = Idle

CallCalculateSpeed ==
    /\ ~out.done
    /\ out' = [done |-> TRUE, fn |-> "calculate_speed",
               ret |-> calculate_speed(inp.v[1], inp.v[2], inp.v[3])]
    /\ UNCHANGED <<req, inp>>

CallEpochSpeed ==
    /\ ~out.done
    /\ \E m \in {4, 5} :
         out' = [done |-> TRUE, fn |-> "get_epoch_speed", minute |-> m,
                 ret |-> get_epoch_speed(OkNet(SpeedDoc(inp.v)), EpochAt(m, 0))]
    /\ UNCHANGED <<req, inp>>

CallSelector ==
    /\ ~out.done
    /\ \E m \in {4, 5} :
         out' = [done |-> TRUE, fn |-> "get_current_info", minute |-> m,
                 ret |-> get_current_info(parse_xml_data(SpeedDoc(inp.v)).data,
                                          NowAt(m, 0))]
    /\ UNCHANGED <<req, inp>>

NextSpeed == CallCalculateSpeed \/ CallEpochSpeed \/ CallSelector

SpecSpeed == InitSpeed /\ [][NextSpeed]_vars

SumSquares(v) == v[1] * v[1] + v[2] * v[2] + v[3] * v[3]

\* the velocity of the record of SpeedDoc(v) at minute m
VelocityAt(v, m) == IF m = 4 THEN v ELSE <<v[3], v[1], v[2] + 1>>

\* C9: calculate_speed(a, b, c) is the non-negative square root of a^2+b^2+c^2
\* (at the resolution of the model's numbers: speed^2 <= a^2+b^2+c^2 <
\* (speed+1)^2), is unchanged when the sign of a component is flipped and is zero
\* exactly when a = b = c = 0; and the speed returned by /epochs/{epoch}/speed and
\* by the nearest-epoch selector for a record is calculate_speed of that record's
\* X_DOT, Y_DOT, Z_DOT.
C9_SpeedLaw ==
    out.done =>
        CASE out.fn = "calculate_speed" ->
                /\ out.ret >= 0
                /\ out.ret * out.ret <= SumSquares(inp.v)
                /\ SumSquares(inp.v) < (out.ret + 1) * (out.ret + 1)
                /\ (out.ret = 0) <=> (inp.v = <<0, 0, 0>>)
                /\ \A sx \in {-1, 1}, sy \in {-1, 1}, sz \in {-1, 1} :
                       calculate_speed(sx * inp.v[1], sy * inp.v[2], sz * inp.v[3]) = out.ret
          [] out.fn = "get_epoch_speed" ->
                LET w == VelocityAt(inp.v, out.minute) IN
                /\ out.ret.status = 200
                /\ out.ret.speed = calculate_speed(w[1], w[2], w[3])
                /\ out.ret.speed * out.ret.speed <= SumSquares(w)
                /\ SumSquares(w) < (out.ret.speed + 1) * (out.ret.speed + 1)
          [] out.fn = "get_current_info" ->
                LET w == VelocityAt(inp.v, out.minute) IN
                /\ out.ret.ok
                /\ out.ret.closest[1].EPOCH = EpochAt(out.minute, 0)
                /\ out.ret.speed = calculate_speed(w[1], w[2], w[3])
          [] OTHER -> TRUE

C9_Witness ==
    /\ out.done /\ out.fn = "get_epoch_speed"
    /\ inp.v = <<1, -2, 3>> /\ out.minute = 4
    /\ out.ret.speed = 3

(***************************************************************************)
(* SpecSelect: get_current_info and the /now view applied to a drawn feed  *)
(* and clock reading.                                                      *)
(***************************************************************************)
\* the element of minute m
SelElem(m) == Elem(EpochAt(m, 0), <<10, 20, 30>>, <<m, 2, -3>>)

SelFeeds == SeqsUpTo({SelElem(m) : m \in 0..MaxMinutes}, MaxEntries)

\* the records the parser builds of the elements, whatever their number
Records(svs) == [i \in 1..Len(svs) |-> t_data(svs[i]).rec]

InitSelect ==
    /\ req = NoRequests
    /\ inp \in {[svs |-> s, now |-> NowAt(m, d)] :
                    s \in SelFeeds, m \in 0..MaxMinutes, d \in 0..2}
    /\ out = Idle

CallGetCurrentInfo ==
    /\ ~out.done
    /\ out' = [done |-> TRUE, fn |-> "get_current_info",
               ret |-> get_current_info(Records(inp.svs), inp.now)]
    /\ UNCHANGED <<req, inp>>

CallNearestEpoch ==
    /\ ~out.done
    /\ \E geo \in GeoOutcomes :
         out' = [done |-> TRUE, fn |-> "get_nearest_epoch", geo |-> geo,
                 ret |-> get_nearest_epoch(OkNet(Doc(inp.svs)), inp.now, geo)]
    /\ UNCHANGED <<req, inp>>

NextSelect == CallGetCurrentInfo \/ CallNearestEpoch

SpecSelect == InitSelect /\ [][NextSelect]_vars

InstantOf(rec) == strptime(rec.EPOCH).t

Ascending(data) ==
    \A i \in 1..(Len(data) - 1) : InstantOf(data[i]) <= InstantOf(data[i + 1])

\* the record a scan of the whole list keeps: the first of minimum |now - epoch|
FullScan(data, now) ==
    data[CHOOSE i \in 1..Len(data) :
            /\ \A j \in 1..Len(data) :
                   Abs(now - InstantOf(data[i])) <= Abs(now - InstantOf(data[j]))
            /\ \A j \in 1..(i - 1) :
                   Abs(now - InstantOf(data[i])) < Abs(now - InstantOf(data[j]))]

\* C1: on every non-empty feed in ascending epoch order and for every "now",
\* get_current_info returns the record a full scan for the minimum |now - epoch|
\* returns.
C1_EarlyExitEqualsFullScan ==
    LET data == Records(inp.svs) IN
    (out.done /\ out.fn = "get_current_info" /\ Len(data) >= 1 /\ Ascending(data))
        => (out.ret.ok /\ out.ret.closest = <<FullScan(data, inp.now)>>)

\* the scan selects no record: the list is empty, or its first record is already
\* more than the tolerance after "now"
NothingToSelect ==
    LET data == Records(inp.svs) IN
    data = <<>> \/ inp.now - InstantOf(data[1]) < -tolerance

\* C2: when the sequence is empty or the scan selects no record, get_current_info
\* and the /now view end in a defined "no data" error, not in the exception of
\* dereferencing the unset "closest" (nor in any other unhandled exception).
C2_NoDataIsNotACrash ==
    (out.done /\ NothingToSelect) =>
        /\ out.fn = "get_current_info" => out.ret.exc # "TypeError"
        /\ out.fn = "get_nearest_epoch" => out.ret.kind # "unhandled"

(***************************************************************************)
(* SpecRoute: one request, each view applied as a whole to a drawn fetch   *)
(* outcome, drawn parameters, clock reading and geocoder outcome.          *)
(***************************************************************************)
RouteElems == WellFormedElems \cup {[BaseElem EXCEPT !.X_DOT = WithUnits(<<"x">>)]}

RouteDocs == {Doc(s) : s \in SeqsUpTo(RouteElems, MaxEntries)}

FailedNets ==
    {[kind |-> "ConnectionError", content |-> <<>>],
     [kind |-> "HTTPError", content |-> <<>>]}

EmptyNet == [kind |-> "ok", content |-> <<>>]

RouteNets == FailedNets \cup {EmptyNet} \cup {OkNet(d) : d \in RouteDocs}

\* the text of the integer k, 0 <= k <= 9
IntText(k) == <<DigitChars[k + 1]>>

\* a query parameter: not given, a non-negative integer, a negative one, no integer
ArgValues ==
    {<<>>} \cup {<<IntText(k)>> : k \in 0..(MaxEntries + 1)}
           \cup {<< <<"-", "1">> >>, << <<"x">> >>}

\* the EPOCH strings asked for: of minute 7 there is no record
EpochArgs == {EpochAt(4, 0), EpochAt(5, 0), EpochAt(7, 0)}

Nows == {NowAt(m, d) : m \in 0..MaxMinutes, d \in {0, 30500}}

InitRoute ==
    /\ req = NoRequests
    /\ inp \in {[net |-> n] : n \in RouteNets}
    /\ out = Idle

Served(fn, args, ret) ==
    /\ ~out.done
    /\ out' = [done |-> TRUE, fn |-> fn, args |-> args, ret |-> ret]
    /\ UNCHANGED <<req, inp>>

NoArgs == [limit |-> <<>>, offset |-> <<>>, epoch |-> <<>>, now |-> 0,
           geo |-> [kind |-> "none", address |-> ""]]

ServeComments == Served("get_comments", NoArgs, get_comments(inp.net))

ServeHeader == Served("get_header", NoArgs, get_header(inp.net))

ServeMetadata == Served("get_metadata", NoArgs, get_metadata(inp.net))

ServeEpochs ==
    \E limit \in ArgValues, offset \in ArgValues :
        LET args == [NoArgs EXCEPT !.limit = limit, !.offset = offset] IN
        Served("get_epochs", args, get_epochs(inp.net, args))

ServeEpoch ==
    \E epoch \in EpochArgs :
        Served("get_epoch", [NoArgs EXCEPT !.epoch = epoch], get_epoch(inp.net, epoch))

ServeEpochSpeed ==
    \E epoch \in EpochArgs :
        Served("get_epoch_speed", [NoArgs EXCEPT !.epoch = epoch],
               get_epoch_speed(inp.net, epoch))

ServeEpochLocation ==
    \E epoch \in EpochArgs, geo \in GeoOutcomes :
        Served("get_epoch_location", [NoArgs EXCEPT !.epoch = epoch, !.geo = geo],
               get_epoch_location(inp.net, epoch, geo))

ServeNearestEpoch ==
    \E now \in Nows, geo \in GeoOutcomes :
        Served("get_nearest_epoch", [NoArgs EXCEPT !.now = now, !.geo = geo],
               get_nearest_epoch(inp.net, now, geo))

\* calculate_location called on a record of the feed, as the tests call it
CallCalculateLocation ==
    /\ inp.net.kind = "ok" /\ inp.net.content # <<>>
    /\ \E i \in 1..Len(inp.net.content[1].stateVectors), geo \in GeoOutcomes :
         /\ inp.net.content[1].stateVectors[i] \in WellFormedElems
         /\ Served("calculate_location", [NoArgs EXCEPT !.geo = geo, !.now = i],
                   calculate_location(t_data(inp.net.content[1].stateVectors[i]).rec, geo))

NextRoute ==
    \/ ServeComments \/ ServeHeader \/ ServeMetadata
    \/ ServeEpochs \/ ServeEpoch \/ ServeEpochSpeed \/ ServeEpochLocation
    \/ ServeNearestEpoch \/ CallCalculateLocation

SpecRoute == InitRoute /\ [][NextRoute]_vars

\* the fetch delivered a feed of well-formed entries
FetchedFeed == inp.net.kind = "ok" /\ inp.net.content # <<>>
               /\ AllWellFormed(inp.net.content[1].stateVectors)

FeedEntries == inp.net.content[1].stateVectors

\* the unfiltered list of the feed's records
FeedRecords == [i \in 1..Len(FeedEntries) |-> Expected(FeedEntries[i])]

\* a parameter that is omitted or a non-negative integer, and its value
NonNegArg(arg) == arg = <<>> \/ \E k \in 0..(MaxEntries + 1) : arg[1] = IntText(k)

ArgValue(arg, default) ==
    IF arg = <<>> THEN default ELSE CHOOSE k \in 0..(MaxEntries + 1) : arg[1] = IntText(k)

\* C5: for a fetched feed of N records and limit >= 0, offset >= 0 (each an integer
\* or omitted: limit defaults to N, offset to 0), GET /epochs answers 200 with the
\* records at positions offset .. min(offset+limit, N)-1 of the unfiltered list.
C5_EpochsSlice ==
    (out.done /\ out.fn = "get_epochs" /\ FetchedFeed
        /\ NonNegArg(out.args.limit) /\ NonNegArg(out.args.offset)) =>
        LET N == Len(FeedRecords)
            limit == ArgValue(out.args.limit, N)
            offset == ArgValue(out.args.offset, 0)
        IN  /\ out.ret.status = 200
            /\ out.ret.items = SubSeq(FeedRecords, offset + 1, Min(offset + limit, N))

HasEpoch(epoch) == \E i \in 1..Len(FeedRecords) : FeedRecords[i].EPOCH = epoch

FirstWithEpoch(epoch) ==
    FeedRecords[CHOOSE i \in 1..Len(FeedRecords) :
                    /\ FeedRecords[i].EPOCH = epoch
                    /\ \A j \in 1..(i - 1) : FeedRecords[j].EPOCH # epoch]

\* C6: when the fetch succeeds, GET /epochs/{epoch} answers 404 exactly when no
\* record has that EPOCH string and otherwise 200 with the first such record; the
\* /speed and /location sub-routes answer 404 under the same condition.
C6_NotFoundExactly ==
    (out.done /\ FetchedFeed
        /\ out.fn \in {"get_epoch", "get_epoch_speed", "get_epoch_location"}) =>
        /\ (out.ret.status = 404) <=> ~HasEpoch(out.args.epoch)
        /\ (out.fn = "get_epoch" /\ HasEpoch(out.args.epoch)) =>
               (out.ret.status = 200 /\ out.ret.items = <<FirstWithEpoch(out.args.epoch)>>)

\* the geoposition the claim gives for a geocoder outcome
GeopositionFor(geo) == IF geo.kind = "found" THEN geo.address ELSE "Address not found"

\* the request reaches the geocoder: a feed of at least two records, and the
\* record asked for exists (/location) or a record is within reach of "now" (/now)
ReachesGeocoder ==
    /\ FetchedFeed /\ Len(FeedEntries) >= 2
    /\ \/ out.fn = "get_epoch_location" /\ HasEpoch(out.args.epoch)
       \/ out.fn = "get_nearest_epoch"
            /\ out.args.now - InstantOf(FeedRecords[1]) >= -tolerance

\* C4: whatever the geocoder does (address, no match, service unavailable),
\* calculate_location returns a string geoposition, the address or the sentinel
\* "Address not found", and /epochs/{epoch}/location and /now answer 200 with it.
C4_GeocodingNeverFails ==
    /\ (out.done /\ out.fn = "calculate_location") =>
           (out.ret.ok /\ out.ret.geoposition = GeopositionFor(out.args.geo))
    /\ (out.done /\ ReachesGeocoder) =>
           (out.ret.status = 200 /\ out.ret.geoposition = GeopositionFor(out.args.geo))

(***************************************************************************)
(* Spec: the service under concurrent requests (app.run serves each        *)
(* request in a thread of its own).  A request runs its view step by step: *)
(* received, fetch, test of the fetched bytes, parse, transform, geocode,  *)
(* respond; the steps of the requests interleave freely.  Each request     *)
(* also records what the outside gave it (fetch outcome, clock reading,    *)
(* geocoder outcome) and counts its fetches, parses and geocoder calls.    *)
(***************************************************************************)
Requests == {"r1", "r2"}

Routes == {"get_comments", "get_header", "get_metadata", "get_epochs", "get_epoch",
           "get_epoch_speed", "get_epoch_location", "get_nearest_epoch"}

DocumentRoutes == {"get_comments", "get_header", "get_metadata"}

\* the two-record feed of the tests, and a feed of one record
FixtureDoc == Doc(<<Elem(EpochAt(4, 0), <<10, 20, 30>>, <<10, 20, 30>>),
                    Elem(EpochAt(5, 0), <<15, 25, 35>>, <<15, 25, 35>>)>>)

SingleDoc == Doc(<<BaseElem>>)

ApiNets == {[kind |-> "ConnectionError", content |-> <<>>], OkNet(FixtureDoc),
            OkNet(SingleDoc)}

\* the parameters a request of each route comes with
ApiArgs(route) ==
    CASE route = "get_epochs" ->
            {[NoArgs EXCEPT !.limit = l, !.offset = o] :
                l \in {<<>>, <<IntText(1)>>}, o \in {<<>>, <<IntText(1)>>}}
      [] route \in {"get_epoch", "get_epoch_speed", "get_epoch_location"} ->
            {[NoArgs EXCEPT !.epoch = e] : e \in {EpochAt(5, 0), EpochAt(7, 0)}}
      [] OTHER -> {NoArgs}

ApiNows == {NowAt(4, 1), NowAt(5, 0)}

NotFetched == [kind |-> "", content |-> <<>>]

\* a request not yet received; its locals are unbound, written here as None, [],
\* and zero
NewRequest ==
    [pc |-> "idle", route |-> "", args |-> NoArgs, net |-> NotFetched,
     iss_data |-> [isNone |-> TRUE, content |-> <<>>], parsed_data |-> <<>>,
     closest |-> NoRecord, speed |-> 0, resp |-> NoResp,
     nfetch |-> 0, nparse |-> 0, ngeo |-> 0]

NoInput == <<>>

Init ==
    /\ req = [r \in Requests |-> NewRequest]
    /\ inp = NoInput
    /\ out = Idle

\* the call frame holding the locals of request r's view: its own
frame_shared(r) == "r1"

frame(r) == r

Locals(r) == req[frame(r)]

\* xmltodict.parse of the fetched bytes: no document in an empty body
xmltodict_parse(content) ==
    IF content = <<>> THEN [ok |-> FALSE, exc |-> "ExpatError", doc |-> Doc(<<>>)]
    ELSE [ok |-> TRUE, exc |-> "", doc |-> content[1]]

parse_document(xml_dict) ==
    IF ~xml_dict.ok THEN [ok |-> FALSE, exc |-> xml_dict.exc, data |-> <<>>]
    ELSE parse_xml_data(xml_dict.doc)

\* Flask dispatches a request to its view
Receive(r) ==
    /\ req[r].pc = "idle"
    /\ \E route \in Routes : \E args \in ApiArgs(route) :
         req' = [req EXCEPT ![r].pc = "download", ![r].route = route, ![r].args = args]
    /\ UNCHANGED <<inp, out>>

\* iss_data = download_iss_data(url)
Download(r) ==
    /\ req[r].pc = "download"
    /\ \E net \in ApiNets :
         req' = [req EXCEPT ![r].pc = "fetched", ![r].net = net, ![r].nfetch = @ + 1,
                            ![frame(r)].iss_data = download_iss_data(net)]
    /\ UNCHANGED <<inp, out>>

\* a variant that fetches once more before it gives up
FailRespondRetry(r) ==
    /\ req[r].pc = "fetched"
    /\ ~truthy(Locals(r).iss_data)
    /\ req' = IF req[r].nfetch < 2 THEN [req EXCEPT ![r].pc = "download"]
              ELSE [req EXCEPT ![r].pc = "done", ![r].resp = FailedDownload]
    /\ UNCHANGED <<inp, out>>

\* the else branch of "if iss_data:"
FailRespond(r) ==
    /\ req[r].pc = "fetched"
    /\ ~truthy(Locals(r).iss_data)
    /\ req' = [req EXCEPT ![r].pc = "done", ![r].resp = FailedDownload]
    /\ UNCHANGED <<inp, out>>

document_response(route, xml_dict) ==
    IF ~xml_dict.ok THEN Unhandled(xml_dict.exc)
    ELSE IF route = "get_comments" THEN comments_body(xml_dict.doc)
    ELSE IF route = "get_header" THEN header_body(xml_dict.doc)
    ELSE metadata_body(xml_dict.doc)

\* /comment, /header, /metadata: the view reads the document and returns
AnswerDocument(r) ==
    /\ req[r].pc = "fetched"
    /\ truthy(Locals(r).iss_data)
    /\ req[r].route \in DocumentRoutes
    /\ req' = [req EXCEPT ![r].pc = "done",
                          ![r].resp = document_response(req[r].route,
                                          xmltodict_parse(Locals(r).iss_data.content))]
    /\ UNCHANGED <<inp, out>>

Parsed(r, parsed) ==
    IF ~parsed.ok
    THEN [req EXCEPT ![r].pc = "done", ![r].nparse = @ + 1,
                     ![r].resp = Unhandled(parsed.exc)]
    ELSE [req EXCEPT ![r].pc = "parsed", ![r].nparse = @ + 1,
                     ![frame(r)].parsed_data = parsed.data]

\* parsed_data = parse_xml_data(iss_data)
Parse(r) ==
    /\ req[r].pc = "fetched"
    /\ truthy(Locals(r).iss_data)
    /\ req[r].route \notin DocumentRoutes
    /\ req' = Parsed(r, parse_document(xmltodict_parse(Locals(r).iss_data.content)))
    /\ UNCHANGED <<inp, out>>

list_response(route, parsed_data, args) ==
    IF route = "get_epochs" THEN epochs_body(parsed_data, args)
    ELSE IF route = "get_epoch" THEN epoch_body(parsed_data, args.epoch)
    ELSE epoch_speed_body(parsed_data, args.epoch)

\* /epochs, /epochs/<epoch>, /epochs/<epoch>/speed: the rest of the view
Answer(r) ==
    /\ req[r].pc = "parsed"
    /\ req[r].route \in {"get_epochs", "get_epoch", "get_epoch_speed"}
    /\ req' = [req EXCEPT ![r].pc = "done",
                          ![r].resp = list_response(req[r].route, Locals(r).parsed_data,
                                                    req[r].args)]
    /\ UNCHANGED <<inp, out>>

Found(r, parsed_data, i) ==
    IF i = 0 THEN [req EXCEPT ![r].pc = "done", ![r].resp = NotFound]
    ELSE [req EXCEPT ![r].pc = "locate", ![frame(r)].closest = parsed_data[i]]

\* /epochs/<epoch>/location: the loop up to the record asked for
Find(r) ==
    /\ req[r].pc = "parsed"
    /\ req[r].route = "get_epoch_location"
    /\ req' = Found(r, Locals(r).parsed_data,
                    find_epoch(Locals(r).parsed_data, req[r].args.epoch))
    /\ UNCHANGED <<inp, out>>

Selected(r, now, info) ==
    IF ~info.ok
    THEN [req EXCEPT ![r].pc = "done", ![r].args.now = now,
                     ![r].resp = Unhandled(info.exc)]
    ELSE [req EXCEPT ![r].pc = "locate", ![r].args.now = now,
                     ![frame(r)].closest = info.closest[1],
                     ![frame(r)].speed = info.speed]

\* /now: closest, speed = get_current_info(parsed_data), which reads the clock
Select(r) ==
    /\ req[r].pc = "parsed"
    /\ req[r].route = "get_nearest_epoch"
    /\ \E now \in ApiNows :
         req' = Selected(r, now, get_current_info(Locals(r).parsed_data, now))
    /\ UNCHANGED <<inp, out>>

located_response(route, closest, speed, l) ==
    IF route = "get_epoch_location" THEN location_response(l)
    ELSE nearest_response(closest, speed, l)

\* lat, long, alt, geo = calculate_location(...), which calls the geocoder, and
\* the response built of it
Locate(r) ==
    /\ req[r].pc = "locate"
    /\ \E geo \in GeoOutcomes :
         req' = [req EXCEPT ![r].pc = "done", ![r].args.geo = geo, ![r].ngeo = @ + 1,
                            ![r].resp = located_response(req[r].route, Locals(r).closest,
                                            Locals(r).speed,
                                            calculate_location(Locals(r).closest, geo))]
    /\ UNCHANGED <<inp, out>>

Next ==
    \E r \in Requests :
        \/ Receive(r) \/ Download(r) \/ FailRespond(r) \/ AnswerDocument(r)
        \/ Parse(r) \/ Answer(r) \/ Find(r) \/ Select(r) \/ Locate(r)

Spec == Init /\ [][Next]_vars

Done(r) == req[r].pc = "done"

FetchFailed(r) == req[r].nfetch >= 1 /\ req[r].net.kind # "ok"

\* C7: a failed fetch is reported once and immediately: download_iss_data returns
\* its failure value (None) for every exception of the fetch, the request fetched
\* exactly once, parsed nothing, called no geocoder, has nothing left to do but
\* respond, and its response is 500 with the plain-text message.
C7_FailedFetchReportedOnce ==
    /\ \A net \in FailedNets : download_iss_data(net).isNone
    /\ \A r \in Requests :
         FetchFailed(r) =>
            /\ req[r].nfetch = 1 /\ req[r].nparse = 0 /\ req[r].ngeo = 0
            /\ req[r].pc \in {"fetched", "done"}
            /\ Done(r) => /\ req[r].resp.status = 500
                          /\ req[r].resp.kind = "text"
                          /\ req[r].resp.text = "Failed to download ISS data."

C7_Witness ==
    /\ Done("r1") /\ FetchFailed("r1") /\ req["r1"].route = "get_nearest_epoch"
    /\ req["r1"].resp = FailedDownload
    /\ Done("r2") /\ req["r2"].route = "get_nearest_epoch" /\ req["r2"].ngeo = 1
    /\ req["r2"].resp.status = 200

\* the response of request r's view run alone on what the request was given
Alone(r) ==
    CASE req[r].route = "get_comments" -> get_comments(req[r].net)
      [] req[r].route = "get_header" -> get_header(req[r].net)
      [] req[r].route = "get_metadata" -> get_metadata(req[r].net)
      [] req[r].route = "get_epochs" -> get_epochs(req[r].net, req[r].args)
      [] req[r].route = "get_epoch" -> get_epoch(req[r].net, req[r].args.epoch)
      [] req[r].route = "get_epoch_speed" -> get_epoch_speed(req[r].net, req[r].args.epoch)
      [] req[r].route = "get_epoch_location" ->
            get_epoch_location(req[r].net, req[r].args.epoch, req[r].args.geo)
      [] req[r].route = "get_nearest_epoch" ->
            get_nearest_epoch(req[r].net, req[r].args.now, req[r].args.geo)

\* C10: whatever the interleaving of the requests' steps, the response of each
\* finished request is the response its view gives when run alone with the same
\* fetch outcome, parameters, clock reading and geocoder outcome.
C10_RequestsIndependent == \A r \in Requests : Done(r) => req[r].resp = Alone(r)

C10_Witness ==
    /\ Done("r1") /\ Done("r2")
    /\ req["r1"].route = "get_nearest_epoch" /\ req["r2"].route = "get_epoch_location"
    /\ req["r1"].net = OkNet(FixtureDoc) /\ req["r2"].net = OkNet(FixtureDoc)
    /\ req["r1"].args.geo # req["r2"].args.geo
    /\ req["r1"].resp.status = 200 /\ req["r2"].resp.status = 200
    /\ req["r1"].resp.geoposition # req["r2"].resp.geoposition

====
